---- MODULE Spec2Model ----
(***************************************************************************)
(* Model of homework.py: a bot that polls the homework-status API on a     *)
(* fixed period and relays status changes through a Telegram bot.          *)
(*                                                                         *)
(* The string constants of the source are Russian; they are written here   *)
(* transliterated to ASCII, one for one, so that two texts are equal here  *)
(* exactly when they are equal in the source; a back-quoted name `x` of   *)
(* the source is written <x>.                                              *)
(*                                                                         *)
(* Python values are tagged records [t |-> <type name>, v |-> <payload>];  *)
(* an exception is a record [type |-> <class name>, text |-> str(args)].   *)
(***************************************************************************)
EXTENDS Integers, Sequences, FiniteSets, TLC

(***************************************************************************)
(* Bounds of the model.                                                    *)
(***************************************************************************)
MaxCycles == 3
StartTime == 1000
MaxCalls == 4

(***************************************************************************)
(* Program constants.                                                      *)
(***************************************************************************)
RETRY_PERIOD == 600
ENDPOINT == "https://practicum.yandex.ru/api/user_api/homework_statuses/"
HTTP_OK == 200

\* The table with the sentences of approved and rejected exchanged.
HOMEWORK_VERDICTS_exchanged ==
    [approved  |-> "Rabota proverena: u revyuera est zamechaniya.",
     reviewing |-> "Rabota vzyata na proverku revyuerom.",
     rejected  |-> "Rabota proverena: revyueru vsyo ponravilos. Ura!"]

HOMEWORK_VERDICTS ==
    [approved  |-> "Rabota proverena: revyueru vsyo ponravilos. Ura!",
     reviewing |-> "Rabota vzyata na proverku revyuerom.",
     rejected  |-> "Rabota proverena: u revyuera est zamechaniya."]

(***************************************************************************)
(* Python values.                                                          *)
(***************************************************************************)
None == [t |-> "NoneType"]
Str(s) == [t |-> "str", v |-> s]
Num(n) == [t |-> "int", v |-> n]
List(s) == [t |-> "list", v |-> s]
Dict(f) == [t |-> "dict", v |-> f]

\* value is None
IsNone(x) == x.t = "NoneType"

\* dict.get(key): the value under key, None when the key is absent.
Get(d, key) == IF key \in DOMAIN d.v THEN d.v[key] ELSE None

\* bool(value), as used by `not x` and `if x:`.
Truthy(x) ==
    CASE x.t = "NoneType" -> FALSE
      [] x.t = "str"  -> x.v /= ""
      [] x.t = "int"  -> x.v /= 0
      [] x.t = "list" -> Len(x.v) > 0
      [] x.t = "dict" -> DOMAIN x.v /= {}

\* str(value), as used by an f-string placeholder.
PyStr(x) ==
    CASE x.t = "NoneType" -> "None"
      [] x.t = "str"  -> x.v
      [] x.t = "int"  -> ToString(x.v)
      [] x.t = "list" -> IF Len(x.v) = 0 THEN "[]" ELSE "[...]"
      [] x.t = "dict" -> IF DOMAIN x.v = {} THEN "{}" ELSE "{...}"

\* str(type(value)).
TypeStr(x) == "<class '" \o x.t \o "'>"

\* Whether hash(value) is defined (needed by `value in dict`).
Hashable(x) == x.t \notin {"list", "dict"}

(***************************************************************************)
(* Exceptions.                                                             *)
(***************************************************************************)
NoError == [type |-> "", text |-> ""]
Exc(type, text) == [type |-> type, text |-> text]
Raised(e) == e.type /= ""

\* str(error): KeyError prints the repr of its single argument.
ExcStr(e) == IF e.type = "KeyError" THEN "'" \o e.text \o "'" ELSE e.text

\* isinstance(error, telebot.apihelper.ApiException)
IsApiException(e) == e.type = "ApiException"

(***************************************************************************)
(* check_tokens                                                            *)
(***************************************************************************)
required_vars == <<"PRACTICUM_TOKEN", "TELEGRAM_TOKEN", "TELEGRAM_CHAT_ID">>

\* The list of the required names whose global is None.
missing_vars_none_only(global_vars) ==
    SelectSeq(required_vars, LAMBDA var : IsNone(Get(Dict(global_vars), var)))

\* The list of the required names whose global is missing or falsy.
missing_vars(global_vars) ==
    SelectSeq(required_vars, LAMBDA var : ~Truthy(Get(Dict(global_vars), var)))

\* str(list of str): "['a', 'b']".
RECURSIVE ReprItems(_)
ReprItems(names) ==
    IF Len(names) = 0 THEN ""
    ELSE IF Len(names) = 1 THEN "'" \o names[1] \o "'"
    ELSE "'" \o names[1] \o "', " \o ReprItems(Tail(names))

ListRepr(names) == "[" \o ReprItems(names) \o "]"

MissingText(global_vars) ==
    "Otsutstvuyut obyazatelnye peremennye okruzheniya: "
        \o ListRepr(missing_vars(global_vars))

\* The exception check_tokens raises, NoError when it returns.
check_tokens(global_vars) ==
    IF Len(missing_vars(global_vars)) > 0
    THEN Exc("ValueError", MissingText(global_vars))
    ELSE NoError

(***************************************************************************)
(* get_api_answer                                                          *)
(* An outcome of requests.get is either a transport failure               *)
(* (kind = "RequestException", with its cause) or a response (kind =      *)
(* "response") with a status_code and a body; decodes tells whether the    *)
(* body is JSON, and json is then the decoded value.                       *)
(***************************************************************************)
\* get_api_answer without the check of the status code.
get_api_answer_any_status(ts, outcome) ==
    IF outcome.kind = "RequestException"
    THEN [exc |-> Exc("ConnectionError",
                      "Oshibka pri vypolnenii zaprosa k endpointu " \o ENDPOINT
                      \o " s parametrom " \o ToString(ts) \o ": "
                      \o outcome.cause),
          value |-> None]
    ELSE IF ~outcome.decodes
    THEN [exc |-> Exc("JSONDecodeError", "Expecting value: line 1 column 1 (char 0)"),
          value |-> None]
    ELSE [exc |-> NoError, value |-> outcome.json]

get_api_answer(ts, outcome) ==
    IF outcome.kind = "RequestException"
    THEN [exc |-> Exc("ConnectionError",
                      "Oshibka pri vypolnenii zaprosa k endpointu " \o ENDPOINT
                      \o " s parametrom " \o ToString(ts) \o ": "
                      \o outcome.cause),
          value |-> None]
    ELSE IF outcome.status_code /= HTTP_OK
    THEN [exc |-> Exc("ValueError",
                      "Endpoint " \o ENDPOINT \o " s parametrom "
                      \o ToString(ts) \o " nedostupen: "
                      \o ToString(outcome.status_code)),
          value |-> None]
    ELSE IF ~outcome.decodes
    THEN [exc |-> Exc("JSONDecodeError", "Expecting value: line 1 column 1 (char 0)"),
          value |-> None]
    ELSE [exc |-> NoError, value |-> outcome.json]

(***************************************************************************)
(* check_response                                                          *)
(***************************************************************************)
check_response(resp) ==
    IF resp.t /= "dict"
    THEN Exc("TypeError", "Otvet API ne yavlyaetsya slovarem. "
                          \o "Poluchen tip dannyh: " \o TypeStr(resp))
    ELSE LET homeworks == Get(resp, "homeworks") IN
         IF IsNone(homeworks)
         THEN Exc("KeyError", "V otvete API net klyucha <homeworks>.")
         ELSE IF homeworks.t /= "list"
         THEN Exc("TypeError", "Klyuch <homeworks> ne yavlyaetsya spiskom. "
                               \o "Poluchen tip dannyh: " \o TypeStr(homeworks))
         ELSE NoError

(***************************************************************************)
(* parse_status                                                            *)
(***************************************************************************)
\* parse_status reporting a status outside the table instead of raising.
parse_status_lenient(homework) ==
    IF homework.t /= "dict"
    THEN [exc |-> Exc("AttributeError",
                      "'" \o homework.t \o "' object has no attribute 'get'"),
          value |-> ""]
    ELSE LET homework_name == Get(homework, "homework_name")
             homework_status == Get(homework, "status")
         IN  IF IsNone(homework_name)
             THEN [exc |-> Exc("KeyError",
                               "V otvete API net klyucha <homework_name>."),
                   value |-> ""]
             ELSE IF ~Hashable(homework_status)
             THEN [exc |-> Exc("TypeError", "unhashable type: '"
                                            \o homework_status.t \o "'"),
                   value |-> ""]
             ELSE IF ~(homework_status.t = "str"
                       /\ homework_status.v \in DOMAIN HOMEWORK_VERDICTS)
             THEN [exc |-> NoError,
                   value |-> "Izmenilsya status proverki raboty " \o "\""
                             \o PyStr(homework_name) \o "\". "
                             \o PyStr(homework_status)]
             ELSE [exc |-> NoError,
                   value |-> "Izmenilsya status proverki raboty " \o "\""
                             \o PyStr(homework_name) \o "\". "
                             \o HOMEWORK_VERDICTS[homework_status.v]]

parse_status(homework) ==
    IF homework.t /= "dict"
    THEN [exc |-> Exc("AttributeError",
                      "'" \o homework.t \o "' object has no attribute 'get'"),
          value |-> ""]
    ELSE LET homework_name == Get(homework, "homework_name")
             homework_status == Get(homework, "status")
         IN  IF IsNone(homework_name)
             THEN [exc |-> Exc("KeyError",
                               "V otvete API net klyucha <homework_name>."),
                   value |-> ""]
             ELSE IF ~Hashable(homework_status)
             THEN [exc |-> Exc("TypeError", "unhashable type: '"
                                            \o homework_status.t \o "'"),
                   value |-> ""]
             ELSE IF ~(homework_status.t = "str"
                       /\ homework_status.v \in DOMAIN HOMEWORK_VERDICTS)
             THEN [exc |-> Exc("ValueError",
                               "Neizvestnoe znachenie statusa domashney raboty: "
                               \o PyStr(homework_status)),
                   value |-> ""]
             ELSE [exc |-> NoError,
                   value |-> "Izmenilsya status proverki raboty " \o "\""
                             \o PyStr(homework_name) \o "\". "
                             \o HOMEWORK_VERDICTS[homework_status.v]]

(***************************************************************************)
(* send_message and its decorator message_validator                        *)
(***************************************************************************)
SendOutcomes == {"ok", "ApiException", "ReadTimeout"}

\* What bot.send_message(TELEGRAM_CHAT_ID, message) raises under an outcome.
bot_send_message(outcome) ==
    CASE outcome = "ok" -> NoError
      [] outcome = "ApiException" ->
            Exc("ApiException",
                "A request to the Telegram API was unsuccessful. Error code: 400")
      [] outcome = "ReadTimeout" -> Exc("ReadTimeout", "Read timed out.")

\* The wrapper without the assignment to previous_message.
wrapper_forgets(prev, message, outcome) ==
    IF message /= prev
    THEN LET e == bot_send_message(outcome) IN
         IF Raised(e)
         THEN [previous_message |-> prev, exc |-> e, result |-> outcome]
         ELSE [previous_message |-> prev, exc |-> NoError, result |-> "sent"]
    ELSE [previous_message |-> prev, exc |-> NoError, result |-> "skipped"]

\* The wrapper with the assignment to previous_message before the send.
wrapper_remembers_first(prev, message, outcome) ==
    IF message /= prev
    THEN LET e == bot_send_message(outcome) IN
         IF Raised(e)
         THEN [previous_message |-> message, exc |-> e, result |-> outcome]
         ELSE [previous_message |-> message, exc |-> NoError, result |-> "sent"]
    ELSE [previous_message |-> prev, exc |-> NoError, result |-> "skipped"]

\* One call wrapper(bot, message) with the remembered text prev: the new
\* remembered text, the exception that leaves the wrapper, and what happened
\* ("skipped" when bot.send_message was not called).
wrapper(prev, message, outcome) ==
    IF message /= prev
    THEN LET e == bot_send_message(outcome) IN
         IF Raised(e)
         THEN [previous_message |-> prev, exc |-> e, result |-> outcome]
         ELSE [previous_message |-> message, exc |-> NoError, result |-> "sent"]
    ELSE [previous_message |-> prev, exc |-> NoError, result |-> "skipped"]

(***************************************************************************)
(* The environment: the values of the three secrets, and the answers of    *)
(* the homework API.                                                       *)
(***************************************************************************)
TokenValues == {None, Str(""), Str("secret")}

Homework(name, status) ==
    Dict([homework_name |-> Str(name), status |-> Str(status)])

Body(homeworks) == Dict([homeworks |-> homeworks, current_date |-> Num(0)])

Bodies ==
    << List(<<>>),
       None,
       Dict([current_date |-> Num(0)]),
       Body(None),
       Body(Str("none")),
       Body(Dict([homework_name |-> Str("proj1")])),
       Body(List(<<>>)),
       Body(List(<<Homework("proj1", "approved")>>)),
       Body(List(<<Homework("proj1", "reviewing")>>)),
       Body(List(<<Homework("proj2", "rejected"), Homework("proj1", "approved")>>)),
       Body(List(<<Homework("proj1", "unknown")>>)),
       Body(List(<<Dict([status |-> Str("approved")])>>)),
       Body(List(<<Dict([status |-> Str("unknown")])>>)),
       Body(List(<<Dict([homework_name |-> Str("proj1")])>>)),
       Body(List(<<Dict([homework_name |-> Str("proj1"), status |-> List(<<>>)])>>)),
       Body(List(<<Str("proj1")>>)) >>

Response(code, decodes, json) ==
    [kind |-> "response", cause |-> "", status_code |-> code,
     decodes |-> decodes, json |-> json]

FetchOutcomes ==
    {[kind |-> "RequestException", cause |-> "Connection refused",
      status_code |-> 0, decodes |-> FALSE, json |-> None]}
    \cup {Response(503, FALSE, None), Response(404, FALSE, None),
          Response(HTTP_OK, FALSE, None)}
    \cup {Response(HTTP_OK, TRUE, Bodies[i]) : i \in 1..Len(Bodies)}

(***************************************************************************)
(* State.                                                                  *)
(*   PRACTICUM_TOKEN, TELEGRAM_TOKEN, TELEGRAM_CHAT_ID  module globals     *)
(*   pc                the statement of main() about to run                *)
(*   timestamp         main's cursor                                       *)
(*   response          main's local                                        *)
(*   error             the exception in flight (NoError when none)         *)
(*   previous_message  the cell closed over by the decorator               *)
(*   now               int(time.time())                                    *)
(* Observers (not read by the program):                                    *)
(*   polls, sleeps     number of requests.get / time.sleep calls so far    *)
(*   from_date         the from_date parameter of the latest request       *)
(*   status_code       the status code of the latest response, 0 if none   *)
(*   calls             the calls of the wrapper in the current cycle, each *)
(*                     [message, result, remembered]                       *)
(*   delivered         the text of the latest bot.send_message call that   *)
(*                     returned, "" if none                                *)
(*   unsent            the text of the latest bot.send_message call when   *)
(*                     that call raised, "" when it returned               *)
(*   raised            the step of the current cycle's try body that       *)
(*                     raised, "" if none                                  *)
(***************************************************************************)
VARIABLES PRACTICUM_TOKEN, TELEGRAM_TOKEN, TELEGRAM_CHAT_ID, pc, timestamp,
          response, error, previous_message, now, polls, sleeps, from_date,
          status_code, calls, delivered, unsent, raised

tokens == <<PRACTICUM_TOKEN, TELEGRAM_TOKEN, TELEGRAM_CHAT_ID>>
vars == <<PRACTICUM_TOKEN, TELEGRAM_TOKEN, TELEGRAM_CHAT_ID, pc, timestamp,
          response, error, previous_message, now, polls, sleeps, from_date,
          status_code, calls, delivered, unsent, raised>>

globals ==
    [PRACTICUM_TOKEN |-> PRACTICUM_TOKEN, TELEGRAM_TOKEN |-> TELEGRAM_TOKEN,
     TELEGRAM_CHAT_ID |-> TELEGRAM_CHAT_ID]

Init ==
    /\ PRACTICUM_TOKEN \in TokenValues
    /\ TELEGRAM_TOKEN \in TokenValues
    /\ TELEGRAM_CHAT_ID \in TokenValues
    /\ pc = "check_tokens"
    /\ timestamp = 0
    /\ response = None
    /\ error = NoError
    /\ previous_message = ""
    /\ now = StartTime
    /\ polls = 0
    /\ sleeps = 0
    /\ from_date = 0
    /\ status_code = 0
    /\ calls = <<>>
    /\ delivered = ""
    /\ unsent = ""
    /\ raised = ""

\* main, line 154: the cursor after a notification, from the cursor ts and
\* the clock t.
NextCursorPlusPeriod(ts, t) == ts + RETRY_PERIOD

NextCursor(ts, t) == t

\* The dispatch without the clause for ApiException.
HandlerWithoutApiClause(e) == "except"

\* The except clause that catches e.
Handler(e) == IF IsApiException(e) THEN "except_api" ELSE "except"

\* The record of a wrapper call in calls.
Call(message, w) ==
    [message |-> message, result |-> w.result, remembered |-> w.previous_message]

\* main, lines 141-143: check_tokens(), the bot, the initial cursor.
CheckTokens ==
    /\ pc = "check_tokens"
    /\ LET e == check_tokens(globals) IN
       IF Raised(e)
       THEN /\ pc' = "exited"
            /\ error' = e
            /\ UNCHANGED timestamp
       ELSE /\ pc' = "get_api_answer"
            /\ timestamp' = now
            /\ UNCHANGED error
    /\ UNCHANGED <<tokens, response, previous_message, now, polls, sleeps,
                   from_date, status_code, calls, delivered, unsent, raised>>

\* main, line 147: response = get_api_answer(timestamp)
GetApiAnswer ==
    /\ pc = "get_api_answer"
    /\ polls < MaxCycles
    /\ \E outcome \in FetchOutcomes :
         LET r == get_api_answer(timestamp, outcome) IN
         /\ status_code' = outcome.status_code
         /\ IF Raised(r.exc)
            THEN /\ error' = r.exc
                 /\ raised' = "get_api_answer"
                 /\ pc' = Handler(r.exc)
                 /\ UNCHANGED response
            ELSE /\ response' = r.value
                 /\ raised' = ""
                 /\ pc' = "check_response"
                 /\ UNCHANGED error
    /\ polls' = polls + 1
    /\ from_date' = timestamp
    /\ calls' = <<>>
    /\ UNCHANGED <<tokens, timestamp, previous_message, now, sleeps, delivered, unsent>>

\* main, line 148: check_response(response)
CheckResponse ==
    /\ pc = "check_response"
    /\ LET e == check_response(response) IN
       IF Raised(e)
       THEN /\ error' = e
            /\ raised' = "check_response"
            /\ pc' = Handler(e)
       ELSE /\ pc' = "homeworks"
            /\ UNCHANGED <<error, raised>>
    /\ UNCHANGED <<tokens, timestamp, response, previous_message, now, polls,
                   sleeps, from_date, status_code, calls, delivered, unsent>>

\* main, lines 149-154: the branch taken when homeworks is non-empty.
Notify ==
    /\ pc = "homeworks"
    /\ LET homeworks == Get(response, "homeworks") IN
       /\ Truthy(homeworks)
       /\ LET last_homework == homeworks.v[1]
              p == parse_status(last_homework)
          IN  IF Raised(p.exc)
              THEN /\ error' = p.exc
                   /\ raised' = "parse_status"
                   /\ pc' = Handler(p.exc)
                   /\ UNCHANGED <<timestamp, previous_message, calls, delivered, unsent>>
              ELSE \E outcome \in SendOutcomes :
                     LET w == wrapper(previous_message, p.value, outcome) IN
                     /\ previous_message' = w.previous_message
                     /\ calls' = Append(calls, Call(p.value, w))
                     /\ delivered' = IF w.result = "sent" THEN p.value
                                     ELSE delivered
                     /\ unsent' = IF w.result = "sent" THEN ""
                                  ELSE IF w.result = "skipped" THEN unsent ELSE p.value
                     /\ IF Raised(w.exc)
                        THEN /\ error' = w.exc
                             /\ raised' = "send_message"
                             /\ pc' = Handler(w.exc)
                             /\ UNCHANGED timestamp
                        ELSE /\ timestamp' = NextCursor(timestamp, now)
                             /\ pc' = "finally"
                             /\ UNCHANGED <<error, raised>>
    /\ UNCHANGED <<tokens, response, now, polls, sleeps, from_date, status_code>>

\* The empty branch with the cursor advanced as in the other branch.
NoChangeAdvancing ==
    /\ pc = "homeworks"
    /\ ~Truthy(Get(response, "homeworks"))
    /\ pc' = "finally"
    /\ timestamp' = NextCursor(timestamp, now)
    /\ UNCHANGED <<tokens, response, error, previous_message, now,
                   polls, sleeps, from_date, status_code, calls, delivered, unsent,
                   raised>>

\* main, lines 155-156: the branch taken when homeworks is empty.
NoChange ==
    /\ pc = "homeworks"
    /\ ~Truthy(Get(response, "homeworks"))
    /\ pc' = "finally"
    /\ UNCHANGED <<tokens, timestamp, response, error, previous_message, now,
                   polls, sleeps, from_date, status_code, calls, delivered, unsent,
                   raised>>

\* The handler leaving the iteration without the finally clause.
ExceptApiExceptionNoSleep ==
    /\ pc = "except_api"
    /\ error' = NoError
    /\ pc' = "get_api_answer"
    /\ UNCHANGED <<tokens, timestamp, response, previous_message, now, polls,
                   sleeps, from_date, status_code, calls, delivered, unsent, raised>>

\* main, lines 157-158: except telebot.apihelper.ApiException
ExceptApiException ==
    /\ pc = "except_api"
    /\ error' = NoError
    /\ pc' = "finally"
    /\ UNCHANGED <<tokens, timestamp, response, previous_message, now, polls,
                   sleeps, from_date, status_code, calls, delivered, unsent, raised>>

\* The text main sends to the operator for the exception e.
OperatorMessage(e) == "Sboy v rabote programmy: " \o ExcStr(e)

\* main, lines 159-163: except Exception; an exception of the send that
\* suppress() does not cover stays in flight through the finally clause.
ExceptException ==
    /\ pc = "except"
    /\ LET message == OperatorMessage(error) IN
       \E outcome \in SendOutcomes :
         LET w == wrapper(previous_message, message, outcome) IN
         /\ previous_message' = w.previous_message
         /\ calls' = Append(calls, Call(message, w))
         /\ delivered' = IF w.result = "sent" THEN message ELSE delivered
         /\ unsent' = IF w.result = "sent" THEN ""
                      ELSE IF w.result = "skipped" THEN unsent ELSE message
         /\ error' = IF Raised(w.exc) /\ ~IsApiException(w.exc)
                     THEN w.exc ELSE NoError
    /\ pc' = "finally"
    /\ UNCHANGED <<tokens, timestamp, response, now, polls, sleeps, from_date,
                   status_code, raised>>

\* main, lines 164-165: finally: time.sleep(RETRY_PERIOD); then the next
\* iteration, or the exception in flight leaves main.
Sleep ==
    /\ pc = "finally"
    /\ now' = now + RETRY_PERIOD
    /\ sleeps' = sleeps + 1
    /\ pc' = IF Raised(error) THEN "exited" ELSE "get_api_answer"
    /\ UNCHANGED <<tokens, timestamp, response, error, previous_message, polls,
                   from_date, status_code, calls, delivered, unsent, raised>>

Next ==
    \/ CheckTokens
    \/ GetApiAnswer
    \/ CheckResponse
    \/ Notify
    \/ NoChange
    \/ ExceptApiException
    \/ ExceptException
    \/ Sleep

Spec == Init /\ [][Next]_vars

(***************************************************************************)
(* The decorated send_message on its own: a caller passes it, one call     *)
(* after another, texts that main can produce.                             *)
(***************************************************************************)
Unavailable(ts) == get_api_answer(ts, Response(503, FALSE, None)).exc

Messages ==
    {parse_status(Homework("proj1", "approved")).value,
     parse_status(Homework("proj1", "reviewing")).value,
     OperatorMessage(Unavailable(StartTime))}

InitWrapper ==
    /\ PRACTICUM_TOKEN = Str("secret")
    /\ TELEGRAM_TOKEN = Str("secret")
    /\ TELEGRAM_CHAT_ID = Str("secret")
    /\ pc = "send_message"
    /\ timestamp = 0
    /\ response = None
    /\ error = NoError
    /\ previous_message = ""
    /\ now = StartTime
    /\ polls = 0
    /\ sleeps = 0
    /\ from_date = 0
    /\ status_code = 0
    /\ calls = <<>>
    /\ delivered = ""
    /\ unsent = ""
    /\ raised = ""

\* One call send_message(bot, message); error is what the caller gets.
SendMessage ==
    /\ pc = "send_message"
    /\ Len(calls) < MaxCalls
    /\ \E message \in Messages, outcome \in SendOutcomes :
         LET w == wrapper(previous_message, message, outcome) IN
         /\ previous_message' = w.previous_message
         /\ calls' = Append(calls, Call(message, w))
         /\ delivered' = IF w.result = "sent" THEN message ELSE delivered
         /\ unsent' = IF w.result = "sent" THEN ""
                      ELSE IF w.result = "skipped" THEN unsent ELSE message
         /\ error' = w.exc
    /\ UNCHANGED <<tokens, pc, timestamp, response, now, polls, sleeps,
                   from_date, status_code, raised>>

NextWrapper == SendMessage

WrapperSpec == InitWrapper /\ [][NextWrapper]_vars

(***************************************************************************)
(* Properties.                                                             *)
(***************************************************************************)
\* The text s contains the text sub.
Contains(s, sub) ==
    \E i \in 1..(Len(s) - Len(sub) + 1) : SubSeq(s, i, i + Len(sub) - 1) = sub

\* The number of calls of bot.send_message among the wrapper calls cs.
Outbound(cs) == Cardinality({i \in DOMAIN cs : cs[i].result /= "skipped"})

\* Every call of bot.send_message among cs returned.
Succeeds(cs) == \A i \in DOMAIN cs : cs[i].result \in {"sent", "skipped"}

\* C1: in a sequence of wrapper calls whose underlying sends all succeed, a
\* call is suppressed exactly when its text equals the text of the call right
\* before it: the same text twice gives one bot.send_message call, two
\* different texts give two, and A, B, A gives three.
C1_Dedup ==
    Succeeds(calls) =>
        /\ \A i \in DOMAIN calls :
              (calls[i].result = "skipped")
                  <=> (i > 1 /\ calls[i].message = calls[i - 1].message)
        /\ (Len(calls) = 2 /\ calls[1].message = calls[2].message)
              => Outbound(calls) = 1
        /\ (Len(calls) = 2 /\ calls[1].message /= calls[2].message)
              => Outbound(calls) = 2
        /\ (Len(calls) = 3 /\ calls[1].message /= calls[2].message
                           /\ calls[3].message = calls[1].message)
              => Outbound(calls) = 3

C1_Witness ==
    /\ pc = "send_message"
    /\ Len(calls) = 3
    /\ Succeeds(calls)
    /\ calls[1].message /= calls[2].message
    /\ calls[3].message = calls[1].message
    /\ Outbound(calls) = 3

\* C2: once check_tokens has passed and the loop polls, main never exits.
C2_LoopNeverExits == polls > 0 => pc /= "exited"

\* The current cycle fetched and validated a response, whose homeworks list
\* is non-empty (empty), and the try body has run to its end or to a raise.
Validated ==
    /\ polls > 0
    /\ pc \in {"except", "except_api", "finally"}
    /\ raised \notin {"get_api_answer", "check_response"}

NonEmptyCycle == Validated /\ Truthy(Get(response, "homeworks"))

EmptyCycle == Validated /\ ~Truthy(Get(response, "homeworks"))

\* C3 as stated: in every cycle with a non-empty validated homeworks list the
\* cursor is advanced to the current time, whether the notification was sent,
\* was skipped as a duplicate, or failed.
C3_AlwaysAdvanced ==
    (NonEmptyCycle /\ raised \in {"", "send_message"}) => timestamp = now

\* C3 amended: in a cycle with a non-empty validated homeworks list the
\* cursor is advanced to the current time when parse_status and the send
\* wrapper return (the text sent or skipped as a duplicate), and is left as
\* polled when either of them raises.
C3_AdvancedUnlessRaised ==
    NonEmptyCycle =>
        /\ raised = "" => (timestamp = now /\ Len(calls) = 1
                           /\ calls[1].result \in {"sent", "skipped"})
        /\ raised /= "" => timestamp = from_date

C3_Witness ==
    /\ NonEmptyCycle
    /\ raised = ""
    /\ calls[1].result = "skipped"
    /\ timestamp = now
    /\ timestamp > from_date

\* C4: a cycle whose valid response has an empty homeworks list calls
\* bot.send_message not at all, leaves the cursor alone, and the next poll
\* uses the same from_date.
EmptyDone ==
    /\ polls > 0
    /\ pc \in {"finally", "get_api_answer"}
    /\ raised = ""
    /\ ~Truthy(Get(response, "homeworks"))

C4_EmptyIsNoOp ==
    /\ [](EmptyCycle \/ EmptyDone => (calls = <<>> /\ timestamp = from_date))
    /\ [][(EmptyDone /\ polls' = polls + 1) => from_date' = from_date]_vars

C4_Witness ==
    /\ EmptyDone
    /\ pc = "get_api_answer"
    /\ polls = 2
    /\ calls = <<>>
    /\ timestamp < now

\* C5: a cycle whose response has a status code other than 200 raises
\* ValueError from get_api_answer, calls the send wrapper exactly once, with
\* a text containing the status code, sleeps, leaves the cursor alone, and
\* the next poll uses the same from_date.
BadStatus == polls > 0 /\ status_code \notin {0, HTTP_OK}

C5_Unavailable ==
    /\ [](BadStatus =>
            /\ raised = "get_api_answer"
            /\ timestamp = from_date
            /\ pc \in {"except", "finally", "get_api_answer", "exited"}
            /\ pc = "except" => (error.type = "ValueError" /\ calls = <<>>)
            /\ pc /= "except" =>
                  /\ Len(calls) = 1
                  /\ Contains(calls[1].message, ToString(status_code))
            /\ pc \in {"get_api_answer", "exited"} => sleeps = polls)
    /\ [][(BadStatus /\ polls' = polls + 1) => from_date' = from_date]_vars

C5_Witness ==
    /\ BadStatus
    /\ status_code = 503
    /\ pc = "get_api_answer"
    /\ polls = 2
    /\ Len(calls) = 1
    /\ calls[1].result = "sent"
    /\ Contains(calls[1].message, "503")

\* The remembered text before call i of cs.
Before(cs, i) == IF i = 1 THEN "" ELSE cs[i - 1].remembered

\* C6: the remembered text changes only on a send that returned: a skipped
\* call and a call whose bot.send_message raised leave it as it was, so the
\* same text passed again after a raise reaches bot.send_message again.
C6_RememberedOnlyOnSend ==
    /\ \A i \in DOMAIN calls :
          /\ calls[i].result /= "sent" => calls[i].remembered = Before(calls, i)
          /\ calls[i].result = "sent" => calls[i].remembered = calls[i].message
    /\ \A i, j \in DOMAIN calls :
          (/\ i < j
           /\ calls[i].result \in {"ApiException", "ReadTimeout"}
           /\ calls[j].message = calls[i].message
           /\ \A k \in (i + 1)..(j - 1) :
                 ~(calls[k].result = "sent" /\ calls[k].message = calls[i].message))
              => calls[j].result /= "skipped"
    /\ Len(calls) > 0 => previous_message = calls[Len(calls)].remembered

C6_Witness ==
    /\ pc = "send_message"
    /\ Len(calls) = 3
    /\ calls[1].result = "sent"
    /\ calls[2].result = "ApiException"
    /\ calls[2].remembered = calls[1].message
    /\ calls[3].message = calls[2].message
    /\ calls[3].result = "sent"

\* C7: the operator notification of a failed cycle is suppressed when its
\* text equals the text of the latest notification delivered, and otherwise
\* makes one call of bot.send_message in that cycle; so a run of consecutive
\* cycles failing with one text makes one call in total.
C7_RepeatSuppressed ==
    [][pc = "except" =>
          LET m == OperatorMessage(error)
              n == Len(calls')
          IN  /\ n = Len(calls) + 1
              /\ calls'[n].message = m
              /\ (m = delivered) => (calls'[n].result = "skipped")
              /\ (m /= delivered) => (calls'[n].result /= "skipped")]_vars

C7_Witness ==
    /\ pc = "finally"
    /\ polls = 3
    /\ raised = "get_api_answer"
    /\ Len(calls) = 1
    /\ calls[1].result = "skipped"
    /\ calls[1].message = delivered

\* C8: with a secret missing or empty, check_tokens raises ValueError and
\* main exits with no poll, no send and no sleep; with the three secrets
\* present check_tokens returns and the loop starts.
AnySecretMissing ==
    \E secret \in {PRACTICUM_TOKEN, TELEGRAM_TOKEN, TELEGRAM_CHAT_ID} :
        secret \in {None, Str("")}

C8_FailFast ==
    /\ AnySecretMissing =>
          /\ polls = 0 /\ sleeps = 0 /\ calls = <<>> /\ delivered = ""
          /\ pc \in {"check_tokens", "exited"}
          /\ pc = "exited" => error.type = "ValueError"
    /\ (~AnySecretMissing /\ pc /= "check_tokens") =>
          (polls > 0 \/ (pc = "get_api_answer" /\ error = NoError))

C8_Witness ==
    /\ pc = "exited"
    /\ PRACTICUM_TOKEN = Str("secret")
    /\ TELEGRAM_TOKEN = Str("secret")
    /\ TELEGRAM_CHAT_ID = Str("")
    /\ polls = 0

\* C9: every cycle ends with one sleep of RETRY_PERIOD: inside a cycle the
\* sleeps are one fewer than the polls, at every poll and at exit they are as
\* many, and the clock has moved by RETRY_PERIOD for each.
C9_OneSleepPerCycle ==
    /\ pc \in {"check_response", "homeworks", "except", "except_api", "finally"}
          => sleeps = polls - 1
    /\ pc \in {"check_tokens", "get_api_answer", "exited"} => sleeps = polls
    /\ now = StartTime + sleeps * RETRY_PERIOD

C9_Witness ==
    /\ pc = "get_api_answer"
    /\ polls = 2
    /\ sleeps = 2
    /\ Len(calls) = 1
    /\ calls[1].result = "ApiException"

\* C10: check_response raises TypeError for a value that is not a mapping,
\* KeyError for a mapping without the key homeworks, TypeError for a mapping
\* whose homeworks is present and not a list, and nothing for a list.
C10_Classification ==
    pc = "check_response" =>
        LET e == check_response(response) IN
        IF response.t /= "dict" THEN e.type = "TypeError"
        ELSE IF "homeworks" \notin DOMAIN response.v THEN e.type = "KeyError"
        ELSE IF response.v.homeworks.t /= "list" THEN e.type = "TypeError"
        ELSE e = NoError

\* The first homework record of a validated non-empty list, about to be
\* passed to parse_status.
AtParse == pc = "homeworks" /\ Truthy(Get(response, "homeworks"))

FirstHomework == Get(response, "homeworks").v[1]

KnownStatuses == {"approved", "reviewing", "rejected"}

\* The record is a mapping whose status is a string outside the table.
UnknownStatus(homework) ==
    /\ homework.t = "dict"
    /\ "status" \in DOMAIN homework.v
    /\ homework.v.status.t = "str"
    /\ homework.v.status.v \notin KnownStatuses

HasName(homework) ==
    "homework_name" \in DOMAIN homework.v
        /\ homework.v.homework_name.t /= "NoneType"

\* parse_status raises ValueError naming the status and returns no message.
RaisesUnknownStatus(homework) ==
    LET p == parse_status(homework) IN
    /\ p.exc.type = "ValueError"
    /\ Contains(p.exc.text, homework.v.status.v)
    /\ p.value = ""

\* C11 as stated: for any homework record whose status is a string outside
\* the verdict table, parse_status raises the unknown-status ValueError and no
\* other kind of error.
C11_AlwaysUnknownStatus ==
    (AtParse /\ UnknownStatus(FirstHomework))
        => RaisesUnknownStatus(FirstHomework)

\* C11 amended: for any homework record with a homework_name whose status is
\* a string outside the verdict table, parse_status raises the ValueError
\* naming the status and returns no message; without a homework_name it
\* raises the missing-key KeyError before it looks at the status.
C11_UnknownStatusAfterName ==
    (AtParse /\ UnknownStatus(FirstHomework)) =>
        IF HasName(FirstHomework)
        THEN RaisesUnknownStatus(FirstHomework)
        ELSE /\ parse_status(FirstHomework).exc.type = "KeyError"
             /\ parse_status(FirstHomework).value = ""

C11_Witness ==
    /\ pc = "except"
    /\ raised = "parse_status"
    /\ error.type = "ValueError"
    /\ Contains(error.text, "unknown")
    /\ UnknownStatus(FirstHomework)
    /\ HasName(FirstHomework)
    /\ calls = <<>>

\* The sentence the verdict table gives for a status, written out.
ExpectedVerdict(status) ==
    CASE status = "approved" ->
            "Rabota proverena: revyueru vsyo ponravilos. Ura!"
      [] status = "reviewing" -> "Rabota vzyata na proverku revyuerom."
      [] status = "rejected" ->
            "Rabota proverena: u revyuera est zamechaniya."

ExpectedText(name, status) ==
    "Izmenilsya status proverki raboty " \o "\"" \o name \o "\". "
        \o ExpectedVerdict(status)

\* The record has a non-empty name and a status of the table.
WellFormed(homework) ==
    /\ homework.t = "dict"
    /\ {"homework_name", "status"} \subseteq DOMAIN homework.v
    /\ homework.v.homework_name.t = "str"
    /\ homework.v.homework_name.v /= ""
    /\ homework.v.status.t = "str"
    /\ homework.v.status.v \in KnownStatuses

\* C12: for a status of the verdict table and a non-empty name parse_status
\* returns exactly the sentence `Izmenilsya status proverki raboty "{name}".
\* {verdict}`, and main passes exactly this text, computed from the first
\* element of homeworks, to the send wrapper.
C12_ExactText ==
    /\ (AtParse /\ WellFormed(FirstHomework)) =>
          parse_status(FirstHomework)
              = [exc |-> NoError,
                 value |-> ExpectedText(FirstHomework.v.homework_name.v,
                                        FirstHomework.v.status.v)]
    /\ (NonEmptyCycle /\ WellFormed(FirstHomework)) =>
          /\ Len(calls) >= 1
          /\ calls[1].message = ExpectedText(FirstHomework.v.homework_name.v,
                                             FirstHomework.v.status.v)
    /\ (NonEmptyCycle /\ FirstHomework = Homework("proj1", "approved")) =>
          calls[1].message =
              "Izmenilsya status proverki raboty " \o "\"" \o "proj1" \o "\". "
                  \o "Rabota proverena: revyueru vsyo ponravilos. Ura!"

C12_Witness ==
    /\ pc = "finally"
    /\ raised = ""
    /\ NonEmptyCycle
    /\ Len(Get(response, "homeworks").v) = 2
    /\ FirstHomework = Homework("proj2", "rejected")
    /\ calls[1].result = "sent"
    /\ calls[1].message = ExpectedText("proj2", "rejected")

\* The status notification of the latest cycle reached bot.send_message,
\* which raised ApiException.
ApiFailed ==
    /\ polls > 0
    /\ pc \in {"except_api", "finally", "get_api_answer"}
    /\ raised = "send_message"
    /\ Len(calls) >= 1
    /\ calls[1].result = "ApiException"

\* C13: when bot.send_message raises ApiException for the status
\* notification, main only logs: no operator notification is attempted in
\* that cycle, the cursor and the remembered text stay as they were, the loop
\* sleeps, the next poll uses the same from_date, and the same text passed
\* again reaches bot.send_message again.
C13_SendFailureOnlyLogged ==
    /\ [](ApiFailed =>
            /\ Len(calls) = 1
            /\ timestamp = from_date
            /\ unsent = calls[1].message
            /\ previous_message /= calls[1].message
            /\ pc = "get_api_answer" => sleeps = polls)
    /\ [][(pc = "homeworks" /\ pc' = "except_api") =>
            (previous_message' = previous_message /\ timestamp' = timestamp)]_vars
    /\ [][pc = "except_api" =>
            (pc' = "finally"
             /\ UNCHANGED <<calls, timestamp, previous_message>>)]_vars
    /\ [][(ApiFailed /\ polls' = polls + 1) => from_date' = from_date]_vars
    /\ [][(pc = "homeworks" /\ unsent /= "" /\ Len(calls') = 1
           /\ calls'[1].message = unsent)
            => calls'[1].result /= "skipped"]_vars

C13_Witness ==
    /\ pc = "homeworks"
    /\ polls = 2
    /\ sleeps = 1
    /\ Truthy(Get(response, "homeworks"))
    /\ unsent /= ""
    /\ unsent = parse_status(FirstHomework).value
    /\ previous_message = ""
    /\ delivered = ""
    /\ timestamp = StartTime
    /\ from_date = StartTime

\* C14: the remembered text is the text of the latest bot.send_message call
\* that returned ("" when none has), so no call that returns carries the text
\* of the one that returned before it.
C14_RememberedIsDelivered ==
    /\ [](previous_message = delivered)
    /\ [][(Len(calls') = Len(calls) + 1 /\ calls'[Len(calls')].result = "sent")
            => calls'[Len(calls')].message /= delivered]_vars

C14_Witness ==
    /\ pc = "finally"
    /\ polls = 3
    /\ raised = "get_api_answer"
    /\ Len(calls) = 1
    /\ calls[1].result = "sent"
    /\ previous_message = calls[1].message
    /\ delivered = OperatorMessage(Unavailable(timestamp))
    /\ timestamp > StartTime

\* C15: the cursor changes only in the step in which, for a validated
\* non-empty list, parse_status returned and the send wrapper returned (the
\* text sent or skipped); every other cycle leaves it as polled; and it never
\* decreases.
C15_CursorFrame ==
    /\ [][pc /= "check_tokens" =>
            /\ timestamp' >= timestamp
            /\ timestamp' /= timestamp =>
                  /\ pc = "homeworks"
                  /\ pc' = "finally"
                  /\ check_response(response) = NoError
                  /\ Truthy(Get(response, "homeworks"))
                  /\ parse_status(FirstHomework).exc = NoError
                  /\ Len(calls') = 1
                  /\ calls'[1].result \in {"sent", "skipped"}
                  /\ timestamp' = now]_vars
    /\ []((/\ polls > 0
           /\ pc \in {"finally", "get_api_answer", "exited"}
           /\ (raised /= "" \/ ~Truthy(Get(response, "homeworks"))))
            => timestamp = from_date)

C15_Witness ==
    /\ pc = "finally"
    /\ polls = 2
    /\ raised = ""
    /\ Len(calls) = 1
    /\ calls[1].result = "sent"
    /\ timestamp = now
    /\ timestamp > from_date

====
